---- MODULE Spec2Model ----
(***************************************************************************)
(* The exact dynamic-programming TSP solver of dp.py (TSP and dp) as a     *)
(* state machine that executes the Python code statement by statement,     *)
(* with the brute-force oracle of brute.py as an operator.                 *)
(*                                                                         *)
(* Cities are 0..n-1 as in the code.  A cost matrix is a sequence of rows, *)
(* so graph[i][j] of the code is graph[i+1][j+1] here (see Cell).          *)
(***************************************************************************)
EXTENDS Integers, Sequences, FiniteSets, TLC

\* ------------------------------------------------------------------ bounds

\* Every 0/1 cost matrix of at most MaxN cities is an input; the patterned
\* matrices have up to MaxN + 2 cities.
MaxN == 3
\* The patterned matrices have their costs in 0..MaxPattern.
MaxPattern == 2

\* --------------------------------------------------------- program constants

\* dp.py line 7
MAX == 999999

\* ------------------------------------------------------------------- state

VARIABLES
    graph,      \* the caller's cost matrix (argument of dp)
    pc,         \* position of the current dp call
    n,          \* dp: n = len(graph)
    visited,    \* dp: visited = (1 << n) - 1
    dp_tbl,     \* dp: the memo table, dp_tbl[mask][pos]
    next_move,  \* dp: the move-selection table, keyed by <<mask, pos>>
    stack,      \* the active TSP calls, innermost last
    cost,       \* dp: value returned by the top-level TSP call
    mask,       \* dp: reconstruction mask
    pos,        \* dp: reconstruction position
    path,       \* dp: reconstruction path
    result,     \* outcome of the current dp call
    ncalls,     \* history: TSP calls made by the current dp call
    nlookups,   \* history: next_move lookups made by the reconstruction loop
    repeat,     \* history: dp was called before on this matrix
    first,      \* history: outcome of the first dp call on this matrix
    scanned,    \* history: the states whose candidate scan the call began
    other,      \* a second dp call of the caller that is not running now
    harness,    \* the harness that compares the DP cost with the SMT cost
    pool        \* a main program with its executor and the tasks given to it

\* What a dp call works on, and what surrounds it.
call == <<graph, pc, n, visited, dp_tbl, next_move, stack, cost, mask, pos,
          path, result, ncalls, nlookups, repeat, first, scanned>>
env == <<other, harness, pool>>
vars == <<call, env>>

\* ----------------------------------------------------------------- helpers

\* Python: 1 << k
Shl(k) == 2 ^ k

\* Python: (m & (1 << c)) != 0
HasBit(m, c) == (m \div Shl(c)) % 2 = 1

\* A slip in line 30: the bit after the one of the city is set.
OrBitOffByOne(m, c) == IF HasBit(m, c + 1) THEN m ELSE m + Shl(c + 1)

\* A slip in line 30: the mask is passed on as it is.
OrBitNone(m, c) == m

\* Python: m | (1 << c)
OrBit(m, c) == IF HasBit(m, c) THEN m ELSE m + Shl(c)

\* Python: len(g)
len(g) == Len(g)

\* Python: g[i] can be evaluated (no IndexError), for an index i >= 0
HasRow(g, i) == i + 1 \in DOMAIN g

\* Python: g[i][j] can be evaluated (no IndexError), for indices i, j >= 0
HasCell(g, i, j) == HasRow(g, i) /\ j + 1 \in DOMAIN g[i + 1]

\* Python: g[i][j]
Cell(g, i, j) == g[i + 1][j + 1]

\* A slip in line 41: visited = 1 << n.
FullMaskOffByOne(k) == Shl(k)

\* Python: (1 << k) - 1
FullMask(k) == Shl(k) - 1

\* A slip in line 43: a memo table of the right size is kept from the call
\* before (a table cached across calls).
KeptMemo(k) ==
    IF DOMAIN dp_tbl = 0..(Shl(k) - 1)
    THEN dp_tbl
    ELSE [m \in 0..(Shl(k) - 1) |-> [p \in 0..(k - 1) |-> -1]]

\* Python: [[-1] * n for _ in range(1 << n)]
NewMemo(k) == [m \in 0..(Shl(k) - 1) |-> [p \in 0..(k - 1) |-> -1]]

\* A slip in line 44: the dict of the call before is kept (a module-level
\* next_move).
KeptMoves == next_move

\* Python: {}
NewMoves == <<>>

\* A table that is one module-level object: a call that resumes finds what
\* the call that ran last left in it.
Shared(own, last) == last

\* dp lines 43-44: dp_tbl and next_move are locals of the dp call, so a call
\* that resumes finds its own table `own`, whatever the table `last` of the
\* call that ran in between holds.
Local(own, last) == own

\* Python: d[key] = v on a dict
Put(d, key, v) == [k \in DOMAIN d \cup {key} |-> IF k = key THEN v ELSE d[k]]

\* A slip in line 20: the way back to city 0 is left out.
BaseCostZero(g, p) == 0

\* A slip in line 20: graph[pos][pos], the diagonal entry of the last city.
BaseCostOwn(g, p) == Cell(g, p, p)

\* A slip in line 20: the indices the wrong way round, graph[0][pos].
BaseCostFromStart(g, p) == IF HasCell(g, 0, p) THEN Cell(g, 0, p) ELSE 0

\* TSP line 20: graph[pos][0]
BaseCost(g, p) == Cell(g, p, 0)

\* A slip in line 31: `new_cost <= ans`, the last minimum wins.
ImprovesOrTies(new_cost, ans) == new_cost <= ans

\* Python: new_cost < ans
Improves(new_cost, ans) == new_cost < ans

\* The outcome of a dp call: it is running, it returned (cost, path), or an
\* exception escaped it.
Running == [kind |-> "running", exc |-> "none", cost |-> 0, path |-> <<>>]
Returned(c, p) == [kind |-> "returned", exc |-> "none", cost |-> c, path |-> p]
Raised(e) == [kind |-> "raised", exc |-> e, cost |-> 0, path |-> <<>>]

\* A TSP activation record: the arguments mask and pos, the locals ans and
\* city, the sum of line 28 (first its left operand graph[pos][city], then
\* new_cost), and the position in the body.
Frame(m, p) == [mask |-> m, pos |-> p, ans |-> 0, city |-> 0, sum |-> 0,
                at |-> "enter"]

Top == stack[Len(stack)]
Pop == SubSeq(stack, 1, Len(stack) - 1)
SetTop(f) == [stack EXCEPT ![Len(stack)] = f]

\* ------------------------------------------------------------------ inputs

OffDiag(k) == {ij \in (1..k) \X (1..k) : ij[1] # ij[2]}

\* The square k x k matrices with zero diagonal and off-diagonal entries in
\* the set costs.
Matrices(k, costs) ==
    {[i \in 1..k |-> [j \in 1..k |-> IF i = j THEN 0 ELSE f[<<i, j>>]]] :
        f \in [OffDiag(k) -> costs]}

\* The k x k matrix with zero diagonal and every other entry c.
Const(k, c) == [i \in 1..k |-> [j \in 1..k |-> IF i = j THEN 0 ELSE c]]

\* g with the entries at the places in S replaced by b.
WithCost(g, S, b) ==
    [i \in DOMAIN g |-> [j \in DOMAIN g[i] |->
        IF <<i, j>> \in S THEN b ELSE g[i][j]]]

\* The example matrix of brute.py 42-47 and test.py 8-13.
Example4 ==
    << <<0, 10, 15, 20>>,
       <<10, 0, 35, 25>>,
       <<15, 35, 0, 300>>,
       <<20, 25, 300, 0>> >>

\* Every 0/1 matrix of at most MaxN cities: ties of every shape.
BinaryGraphs == UNION {Matrices(k, {0, 1}) : k \in 0..MaxN}

\* Matrices of up to MaxN + 2 cities with costs (a*i + b*j + c*i*j) modulo
\* MaxPattern + 1: asymmetric, with ties, large enough for memo hits.
Pattern(k, p) ==
    [i \in 1..k |-> [j \in 1..k |->
        IF i = j THEN 0
        ELSE (p[1] * i + p[2] * j + p[3] * i * j) % (MaxPattern + 1)]]

PatternGraphs ==
    UNION {
        {Pattern(k, p) :
            p \in (0..MaxPattern) \X (0..MaxPattern) \X (0..MaxPattern)} :
        k \in 2..(MaxN + 2)}

\* Costs around MAX.
BigCosts == {MAX - 1, MAX, MAX + 1}

\* Where the large costs are put: one entry, one row, one column, everywhere.
BigPlaces(k) ==
    {{ij} : ij \in OffDiag(k)}
    \cup {{ij \in OffDiag(k) : ij[1] = i} : i \in 1..k}
    \cup {{ij \in OffDiag(k) : ij[2] = i} : i \in 1..k}
    \cup {OffDiag(k)}

BigGraphs ==
    UNION {UNION {UNION {
        {WithCost(Const(k, c), S, b) : b \in BigCosts} :
            S \in BigPlaces(k)} : c \in {0, 1}} : k \in 2..MaxN}

\* The cost matrices of the callers: square, non-negative, zero diagonal
\* (benchmark.py 108-110, test.py 29-31).
IsValid(g) ==
    /\ \A i \in DOMAIN g : Len(g[i]) = Len(g)
    /\ \A i \in DOMAIN g : \A j \in DOMAIN g[i] : g[i][j] >= 0
    /\ \A i \in DOMAIN g : i \in DOMAIN g[i] => g[i][i] = 0

ValidGraphs == BinaryGraphs \cup PatternGraphs \cup BigGraphs \cup {Example4}

\* Lists of lists that are no cost matrix: a non-zero diagonal entry, a
\* negative entry, a row that is too short or too long.
InvalidGraphs ==
    UNION {UNION {
        {WithCost(Const(k, c), {<<i, i>>}, 1) : i \in 1..k}
        \cup {WithCost(Const(k, c), {ij}, -1) : ij \in OffDiag(k)}
        \cup {[Const(k, c) EXCEPT ![i] = SubSeq(@, 1, k - 1)] : i \in 1..k}
        \cup {[Const(k, c) EXCEPT ![i] = Append(@, c)] : i \in 1..k} :
            c \in {0, 1}} : k \in 1..MaxN}

Graphs == ValidGraphs \cup InvalidGraphs

\* ------------------------------------------------------------------- Init

\* No second call and no harness: dp is called on its own.
NoOther == [pc |-> "none"]
NoHarness == [pc |-> "none"]
NoPool == [pc |-> "none"]

\* Before dp is called: its locals do not exist yet.
NotCalled ==
    /\ pc = "start"
    /\ n = 0
    /\ visited = 0
    /\ dp_tbl = <<>>
    /\ next_move = <<>>
    /\ stack = <<>>
    /\ cost = 0
    /\ mask = 0
    /\ pos = 0
    /\ path = <<>>
    /\ result = Running
    /\ ncalls = 0
    /\ nlookups = 0
    /\ repeat = FALSE
    /\ first = Running
    /\ scanned = {}

Init ==
    /\ graph \in Graphs
    /\ NotCalled
    /\ other = NoOther
    /\ harness = NoHarness
    /\ pool = NoPool

\* ----------------------------------------------------------------- actions

\* dp lines 40-46: the locals, the fresh tables, and the call TSP(1, 0, ...).
Call ==
    /\ pc = "start"
    /\ pc' = "tsp"
    /\ n' = len(graph)
    /\ visited' = FullMask(len(graph))
    /\ dp_tbl' = NewMemo(len(graph))
    /\ next_move' = NewMoves
    /\ stack' = <<Frame(1, 0)>>
    /\ ncalls' = 1
    /\ nlookups' = 0
    /\ result' = Running
    /\ scanned' = {}
    /\ UNCHANGED <<graph, cost, mask, pos, path, repeat, first>>
    /\ UNCHANGED env

\* The outcome o of the dp call is what the caller gets; the first one on
\* this matrix is remembered.
Finish(o) ==
    /\ result' = o
    /\ first' = IF repeat THEN first ELSE o

\* An exception propagates out of every active TSP call and out of dp.
Raise(e) ==
    /\ pc' = "raised"
    /\ stack' = <<>>
    /\ Finish(Raised(e))

\* `return v` of the innermost TSP call: the caller resumes in line 28 with
\* the sum graph[pos][city] + v, or dp resumes in line 46 with cost = v and
\* goes on to lines 49-50.
Return(v) ==
    IF Len(stack) = 1
    THEN /\ stack' = <<>>
         /\ cost' = v
         /\ mask' = 1
         /\ pos' = 0
         /\ path' = <<0>>
         /\ pc' = "recon"
    ELSE /\ stack' = [Pop EXCEPT ![Len(stack) - 1] =
                        [@ EXCEPT !.at = "add", !.sum = @ + v]]
         /\ UNCHANGED <<cost, mask, pos, path, pc>>

\* TSP lines 19-20: the full mask; return graph[pos][0].
TSPBase ==
    /\ pc = "tsp"
    /\ Top.at = "enter"
    /\ Top.mask = visited
    /\ IF HasCell(graph, Top.pos, 0)
       THEN /\ Return(BaseCost(graph, Top.pos))
            /\ UNCHANGED <<result, first>>
       ELSE /\ Raise("IndexError")
            /\ UNCHANGED <<cost, mask, pos, path>>
    /\ UNCHANGED <<graph, n, visited, dp_tbl, next_move, ncalls, nlookups,
                   repeat>>
    /\ UNCHANGED <<scanned, env>>

\* Python: dp[m][p] can be evaluated (no IndexError), for indices m, p >= 0
HasEntry(m, p) == m \in DOMAIN dp_tbl /\ p \in DOMAIN dp_tbl[m]

\* A memo table that forgets: no entry ever counts as computed.
IsCachedNever(v) == FALSE

\* A slip in line 22: `dp[mask][pos] > 0`, a computed 0 does not count.
IsCachedPositive(v) == v > 0

\* TSP line 22: `dp[mask][pos] != -1`, the entry holds a computed value.
IsCached(v) == v # -1

\* The store `graph[mask][pos] = ans`: the two list arguments of TSP mixed up.
StoreInGraph(g, tbl, m, p, v) ==
    [graph |-> IF m + 1 \in DOMAIN g /\ p + 1 \in DOMAIN g[m + 1]
               THEN [g EXCEPT ![m + 1][p + 1] = v]
               ELSE g,
     dp |-> tbl]

\* TSP line 35: `dp[mask][pos] = ans` writes the memo table of the call and
\* nothing of the matrix g.
Store(g, tbl, m, p, v) == [graph |-> g, dp |-> [tbl EXCEPT ![m][p] = v]]

\* TSP line 22: dp[mask][pos] is outside the table; IndexError.
TSPMemoFails ==
    /\ pc = "tsp"
    /\ Top.at = "enter"
    /\ Top.mask # visited
    /\ ~HasEntry(Top.mask, Top.pos)
    /\ Raise("IndexError")
    /\ UNCHANGED <<graph, n, visited, dp_tbl, next_move, cost, mask, pos,
                   path, ncalls, nlookups, repeat>>
    /\ UNCHANGED <<scanned, env>>

\* TSP lines 22-23: the memo table holds the state; return it.
TSPMemo ==
    /\ pc = "tsp"
    /\ Top.at = "enter"
    /\ Top.mask # visited
    /\ HasEntry(Top.mask, Top.pos)
    /\ IsCached(dp_tbl[Top.mask][Top.pos])
    /\ Return(dp_tbl[Top.mask][Top.pos])
    /\ UNCHANGED <<graph, n, visited, dp_tbl, next_move, result, ncalls,
                   nlookups, repeat, first>>
    /\ UNCHANGED <<scanned, env>>

\* TSP line 25: the state is not in the memo table; ans = MAX and the loop
\* over range(n) starts.
TSPBegin ==
    /\ pc = "tsp"
    /\ Top.at = "enter"
    /\ Top.mask # visited
    /\ HasEntry(Top.mask, Top.pos)
    /\ ~IsCached(dp_tbl[Top.mask][Top.pos])
    /\ stack' = SetTop([Top EXCEPT !.ans = MAX, !.city = 0, !.at = "loop"])
    /\ scanned' = scanned \cup {<<Top.mask, Top.pos>>}
    /\ UNCHANGED <<graph, pc, n, visited, dp_tbl, next_move, cost, mask, pos,
                   path, result, ncalls, nlookups, repeat, first>>
    /\ UNCHANGED env

\* A slip in line 26: range(n - 1), the last city is left out.
UnvisitedShort(m, from) == {c \in 0..(n - 2) : c >= from /\ ~HasBit(m, c)}

\* TSP lines 26-27: the cities c of range(n), from index `from` on, with
\* (mask & (1 << c)) == 0.
Unvisited(m, from) == {c \in 0..(n - 1) : c >= from /\ ~HasBit(m, c)}

Min(S) == CHOOSE x \in S : \A y \in S : x <= y

\* TSP lines 26-30: the loop takes the next city of range(n) that is not in
\* mask; the left operand graph[pos][city] is evaluated, then TSP is called
\* on the new state.
TSPScan ==
    /\ pc = "tsp"
    /\ Top.at = "loop"
    /\ Unvisited(Top.mask, Top.city) # {}
    /\ LET city == Min(Unvisited(Top.mask, Top.city))
       IN  IF HasCell(graph, Top.pos, city)
           THEN /\ stack' = Append(
                       SetTop([Top EXCEPT !.city = city,
                                          !.sum = Cell(graph, Top.pos, city),
                                          !.at = "call"]),
                       Frame(OrBit(Top.mask, city), city))
                /\ ncalls' = ncalls + 1
                /\ UNCHANGED <<pc, result, first>>
           ELSE /\ Raise("IndexError")
                /\ UNCHANGED ncalls
    /\ UNCHANGED <<graph, n, visited, dp_tbl, next_move, cost, mask, pos,
                   path, nlookups, repeat>>
    /\ UNCHANGED <<scanned, env>>

\* TSP lines 28-33: new_cost is the sum; a strictly smaller new_cost replaces
\* ans and records city in next_move; the loop goes on with the next city.
TSPCompare ==
    /\ pc = "tsp"
    /\ Top.at = "add"
    /\ LET new_cost == Top.sum
       IN  IF Improves(new_cost, Top.ans)
           THEN /\ stack' = SetTop([Top EXCEPT !.ans = new_cost,
                                               !.city = @ + 1, !.at = "loop"])
                /\ next_move' = Put(next_move, <<Top.mask, Top.pos>>, Top.city)
           ELSE /\ stack' = SetTop([Top EXCEPT !.city = @ + 1, !.at = "loop"])
                /\ UNCHANGED next_move
    /\ UNCHANGED <<graph, pc, n, visited, dp_tbl, cost, mask, pos, path,
                   result, ncalls, nlookups, repeat, first>>
    /\ UNCHANGED <<scanned, env>>

\* TSP lines 35-36: the loop is over; dp[mask][pos] = ans; return ans.
TSPStore ==
    /\ pc = "tsp"
    /\ Top.at = "loop"
    /\ Unvisited(Top.mask, Top.city) = {}
    /\ LET stored == Store(graph, dp_tbl, Top.mask, Top.pos, Top.ans)
       IN  /\ graph' = stored.graph
           /\ dp_tbl' = stored.dp
    /\ Return(Top.ans)
    /\ UNCHANGED <<n, visited, next_move, result, ncalls, nlookups, repeat,
                   first>>
    /\ UNCHANGED <<scanned, env>>

\* The lookup as next_move.pop((mask, pos)): the entry read is removed.
Take(d, key) ==
    [value |-> d[key], dict |-> [k \in DOMAIN d \ {key} |-> d[k]]]

\* dp line 52: next_move[(mask, pos)] gives the value and leaves the dict as
\* it is.
Read(d, key) == [value |-> d[key], dict |-> d]

\* dp lines 51-54: one iteration of the reconstruction loop; the lookup
\* next_move[(mask, pos)] raises KeyError on a missing key.
ReconStep ==
    /\ pc = "recon"
    /\ Len(path) < n
    /\ nlookups' = nlookups + 1
    /\ IF <<mask, pos>> \in DOMAIN next_move
       THEN LET read == Read(next_move, <<mask, pos>>)
            IN  /\ pos' = read.value
                /\ path' = Append(path, read.value)
                /\ mask' = OrBit(mask, read.value)
                /\ next_move' = read.dict
                /\ UNCHANGED <<pc, result, first, stack>>
       ELSE /\ Raise("KeyError")
            /\ UNCHANGED <<pos, path, mask, next_move>>
    /\ UNCHANGED <<graph, n, visited, dp_tbl, cost, ncalls, repeat>>
    /\ UNCHANGED <<scanned, env>>

\* dp lines 55-56: the loop is over; path.append(0); return cost, path.
ReconDone ==
    /\ pc = "recon"
    /\ ~(Len(path) < n)
    /\ path' = Append(path, 0)
    /\ pc' = "done"
    /\ Finish(Returned(cost, Append(path, 0)))
    /\ UNCHANGED <<graph, n, visited, dp_tbl, next_move, stack, cost, mask,
                   pos, nlookups, ncalls, repeat>>
    /\ UNCHANGED <<scanned, env>>

\* The caller calls dp once more on the same matrix (the locals of the call
\* that ended are garbage until Call sets them anew).
Again ==
    /\ pc \in {"done", "raised"}
    /\ pc' = "start"
    /\ repeat' = TRUE
    /\ UNCHANGED <<graph, n, visited, dp_tbl, next_move, stack, cost, mask,
                   pos, path, result, ncalls, nlookups, first>>
    /\ UNCHANGED <<scanned, env>>

\* One step of a dp call.
Solve ==
    \/ Call
    \/ TSPBase
    \/ TSPMemoFails
    \/ TSPMemo
    \/ TSPBegin
    \/ TSPScan
    \/ TSPCompare
    \/ TSPStore
    \/ ReconStep
    \/ ReconDone

Next ==
    \/ Solve
    \/ Again

Spec == Init /\ [][Next]_vars

\* ------------------------------------------- dp calls one after the other

\* A two-city matrix whose only tour costs MAX: dp raises KeyError on it.
BigTwo == WithCost(Const(2, 0), {<<1, 2>>}, MAX)

\* The matrices of a caller with two matrices: the empty one, matrices of the
\* same size with different costs, one with memo hits.
HistGraphs ==
    {<<>>, BigTwo, Pattern(MaxN + 2, <<1, 2, 1>>)}
    \cup {Const(k, c) : k \in {2, MaxN}, c \in {0, 1}}

\* The caller's other matrix g, for a later dp call; f is the outcome of the
\* first dp call on it, Running before there was one.
Later(g, f) == [pc |-> "later", graph |-> g, first |-> f]

InitHist ==
    /\ graph \in HistGraphs
    /\ NotCalled
    /\ other \in {Later(g, Running) : g \in HistGraphs}
    /\ harness = NoHarness
    /\ pool = NoPool

\* The dp call has ended and the caller calls dp on its other matrix (the
\* locals of the call that ended are garbage until Call sets them anew).
CallOther ==
    /\ pc \in {"done", "raised"}
    /\ pc' = "start"
    /\ graph' = other.graph
    /\ first' = other.first
    /\ repeat' = (other.first # Running)
    /\ other' = Later(graph, first)
    /\ UNCHANGED <<n, visited, dp_tbl, next_move, stack, cost, mask, pos,
                   path, result, ncalls, nlookups, scanned, harness, pool>>

NextHist ==
    \/ Solve
    \/ CallOther

SpecHist == InitHist /\ [][NextHist]_vars

\* ------------------------------------- dp on matrices with other diagonals

\* Matrices of up to MaxN + 2 cities, with ties and without.
DiagGraphs ==
    {<<>>, Const(1, 0), BigTwo}
    \cup {Pattern(k, p) : k \in 2..(MaxN + 2),
                          p \in {<<0, 0, 0>>, <<1, 1, 0>>, <<1, 2, 1>>}}

\* The matrices that differ from g in diagonal entries only: some of the
\* entries g[i][i] are 1 or MAX.
Twins(g) ==
    {WithCost(g, S, b) : S \in SUBSET {<<i, i>> : i \in DOMAIN g},
                         b \in {1, MAX}}

InitDiag ==
    /\ graph \in DiagGraphs
    /\ NotCalled
    /\ other \in {[pc |-> "twin", graph |-> t] : t \in Twins(graph)}
    /\ harness = NoHarness
    /\ pool = NoPool

\* The dp call on the matrix has ended and the caller calls dp on the twin
\* of the matrix; `first` keeps the outcome of the call on the matrix.
CallTwin ==
    /\ pc \in {"done", "raised"}
    /\ other.pc = "twin"
    /\ pc' = "start"
    /\ graph' = other.graph
    /\ repeat' = TRUE
    /\ other' = [pc |-> "was", graph |-> graph]
    /\ UNCHANGED <<n, visited, dp_tbl, next_move, stack, cost, mask, pos,
                   path, result, ncalls, nlookups, first, scanned, harness,
                   pool>>

NextDiag ==
    \/ Solve
    \/ CallTwin

SpecDiag == InitDiag /\ [][NextDiag]_vars

\* ------------------------------------------------- dp calls side by side

\* The matrices of two tasks that run side by side (benchmark.py 117-128):
\* the task that runs first has any of them, the other one a small one.
ParGraphs ==
    {<<>>, BigTwo, Pattern(MaxN + 2, <<1, 2, 1>>)}
    \cup {Const(k, c) : k \in {2, MaxN}, c \in {0, 1}}
ParSmall == {BigTwo, Const(2, 1), Pattern(MaxN, <<1, 2, 1>>)}

\* The dp call that runs now, as it is kept while the other one runs.
Held ==
    [graph |-> graph,
     pc |-> pc,
     n |-> n,
     visited |-> visited,
     dp_tbl |-> dp_tbl,
     next_move |-> next_move,
     stack |-> stack,
     cost |-> cost,
     mask |-> mask,
     pos |-> pos,
     path |-> path,
     result |-> result,
     ncalls |-> ncalls,
     nlookups |-> nlookups,
     repeat |-> repeat,
     first |-> first,
     scanned |-> scanned]

\* A dp call on matrix g that has not started.
Waiting(g) ==
    [graph |-> g, pc |-> "start", n |-> 0, visited |-> 0, dp_tbl |-> <<>>,
     next_move |-> <<>>, stack |-> <<>>, cost |-> 0, mask |-> 0, pos |-> 0,
     path |-> <<>>, result |-> Running, ncalls |-> 0, nlookups |-> 0,
     repeat |-> FALSE, first |-> Running, scanned |-> {}]

InitPar ==
    /\ graph \in ParGraphs
    /\ NotCalled
    /\ other \in {Waiting(g) : g \in ParSmall}
    /\ harness = NoHarness
    /\ pool = NoPool

\* The scheduler takes the processor from the dp call that runs and gives it
\* to the other one, between any two steps.  Each call first runs once with
\* the other one not running (before it starts or after it ends), which
\* gives the outcome of the call alone; from then on the calls are repeated
\* and interleave freely.
Switch ==
    /\ \/ pc \in {"done", "raised"} /\ other.first = Running
       \/ first # Running /\ other.first # Running
    /\ other' = Held
    /\ graph' = other.graph
    /\ pc' = other.pc
    /\ n' = other.n
    /\ visited' = other.visited
    /\ dp_tbl' = Local(other.dp_tbl, dp_tbl)
    /\ next_move' = Local(other.next_move, next_move)
    /\ stack' = other.stack
    /\ cost' = other.cost
    /\ mask' = other.mask
    /\ pos' = other.pos
    /\ path' = other.path
    /\ result' = other.result
    /\ ncalls' = other.ncalls
    /\ nlookups' = other.nlookups
    /\ repeat' = other.repeat
    /\ first' = other.first
    /\ scanned' = other.scanned
    /\ UNCHANGED <<harness, pool>>

NextPar ==
    \/ Solve
    \/ Again
    \/ Switch

SpecPar == InitPar /\ [][NextPar]_vars

\* ------------------------------------------------------------------ oracle

\* brute.py line 18: permutations(vertex), as the set of its elements.
Perms(S) ==
    {p \in [1..Cardinality(S) -> S] :
        \A i, j \in 1..Cardinality(S) : i # j => p[i] # p[j]}

\* brute.py lines 22-29: the weight of the walk t[1] -> t[2] -> ... in g.
RECURSIVE WalkCost(_, _, _)
WalkCost(g, t, i) ==
    IF i >= Len(t) THEN 0
    ELSE Cell(g, t[i], t[i + 1]) + WalkCost(g, t, i + 1)

TourCost(g, t) == WalkCost(g, t, 1)

\* The closed tours 0 -> p -> 0 over the permutations p of cities 1..k-1.
Tours(k) == {<<0>> \o p \o <<0>> : p \in Perms(1..(k - 1))}

\* brute.py lines 16-36, over all the cities of g: the minimum tour cost.
MinTourCost(g) == Min({TourCost(g, t) : t \in Tours(Len(g))})

OptimalTours(g) == {t \in Tours(Len(g)) : TourCost(g, t) = MinTourCost(g)}

\* The exact cost of completing the tour from state (m, p): graph[p][0] on the
\* full mask, else the minimum over the cities c not in m of
\* graph[p][c] + Completion(m | 1 << c, c).
RECURSIVE Completion(_, _, _)
Completion(g, m, p) ==
    IF m = Shl(Len(g)) - 1 THEN Cell(g, p, 0)
    ELSE Min({Cell(g, p, c) + Completion(g, OrBit(m, c), c) :
                c \in {c \in 0..(Len(g) - 1) : ~HasBit(m, c)}})

\* The dp call has ended: it returned or an exception escaped it.
Finished == pc \in {"done", "raised"}

\* ---------------------------------------------------------------- brute.py

\* brute.py line 4
V == 4

\* brute.py lines 1, 16: sys.maxsize, the start value of min_cost (2^31 - 1
\* on a 32-bit build of Python, 2^63 - 1 on a 64-bit one): above every path
\* weight.
maxsize == 2147483647

\* brute.py lines 10-13: the vertices of range(V) apart from s, in order.
vertex(s) == SelectSeq([i \in 1..V |-> i - 1], LAMBDA x : x # s)

\* The sequence v without its i-th element.
Without(v, i) == SubSeq(v, 1, i - 1) \o SubSeq(v, i + 1, Len(v))

\* brute.py line 18: itertools.permutations(v), in the order it yields them
\* (lexicographic in the positions of v).
RECURSIVE permutations(_), PermutationsFrom(_, _)
permutations(v) == IF Len(v) = 0 THEN << <<>> >> ELSE PermutationsFrom(v, 1)
PermutationsFrom(v, i) ==
    IF i > Len(v) THEN <<>>
    ELSE LET rest == permutations(Without(v, i))
         IN  [k \in 1..Len(rest) |-> <<v[i]>> \o rest[k]]
                \o PermutationsFrom(v, i + 1)

\* brute.py lines 25-29: every graph[k][j] read on the walk t can be read.
Readable(g, t) == \A k \in 1..(Len(t) - 1) : HasCell(g, t[k], t[k + 1])

\* brute.py lines 19-34: the loop over the permutations from the k-th on; a
\* strictly smaller weight replaces min_cost and min_path.
RECURSIVE Search(_, _, _, _, _, _)
Search(g, s, perms, k, min_cost, min_path) ==
    IF k > Len(perms) THEN [min_cost |-> min_cost, min_path |-> min_path]
    ELSE LET current_pathweight == TourCost(g, <<s>> \o perms[k] \o <<s>>)
         IN  IF current_pathweight < min_cost
             THEN Search(g, s, perms, k + 1, current_pathweight, perms[k])
             ELSE Search(g, s, perms, k + 1, min_cost, min_path)

\* brute.py lines 8-36: brute(graph, s); a read outside the matrix raises
\* IndexError.
brute(g, s) ==
    LET next_permutation == permutations(vertex(s))
    IN  IF \E k \in 1..Len(next_permutation) :
                ~Readable(g, <<s>> \o next_permutation[k] \o <<s>>)
        THEN Raised("IndexError")
        ELSE LET found == Search(g, s, next_permutation, 1, maxsize, <<>>)
             IN  Returned(found.min_cost, <<0>> \o found.min_path \o <<0>>)

\* Matrices to run dp and brute on: every 0/1 matrix of V cities, matrices
\* of V cities with costs around MAX, and matrices of other sizes.
OracleGraphs ==
    Matrices(V, {0, 1})
    \cup UNION {UNION {{WithCost(Const(V, c), S, b) : b \in BigCosts} :
                    S \in BigPlaces(V)} : c \in {0, 1}}
    \cup {Pattern(V, p) :
            p \in (0..MaxPattern) \X (0..MaxPattern) \X (0..MaxPattern)}
    \cup {Const(k, c) : k \in 1..MaxN, c \in {0, 1}}
    \cup {<<>>, Example4, Pattern(V + 1, <<1, 2, 1>>)}

InitOracle ==
    /\ graph \in OracleGraphs
    /\ NotCalled
    /\ other = NoOther
    /\ harness = [pc |-> "dp"]
    /\ pool = NoPool

\* dp has ended; brute(graph, 0) is called on the same matrix.
CallBrute ==
    /\ harness.pc = "dp"
    /\ pc \in {"done", "raised"}
    /\ harness' = [pc |-> "compared", brute |-> brute(graph, 0)]
    /\ UNCHANGED <<call, other, pool>>

NextOracle ==
    \/ Solve
    \/ CallBrute

SpecOracle == InitOracle /\ [][NextOracle]_vars

\* ------------------------------------------- the comparison harnesses

\* The matrices a harness is run on: valid ones of one city or more.
HarnessGraphs ==
    {Const(1, 0), BigTwo, Pattern(MaxN + 2, <<1, 2, 1>>)}
    \cup {Const(k, c) : k \in 2..MaxN, c \in {0, 1}}

\* smt.py 10-82, with z3 as a black box: smt returns 0 for one city (lines
\* 15-17), else the total distance of the model z3 found, which is the cost
\* of a tour (lines 77-80), or the sentinel -1 when check() did not answer
\* sat (line 82).
SmtOutcomes(g) ==
    IF Len(g) = 1 THEN {0}
    ELSE {-1} \cup {TourCost(g, t) : t \in Tours(Len(g))}

\* A harness of kind k ("benchmark": benchmark.run_single_benchmark, "test":
\* one round of the loop of test.py) before it calls the solvers.
NewHarness(k) ==
    [pc |-> "smt", kind |-> k, smt_dist |-> 0, dp_dist |-> 0,
     agree |-> "None", printed |-> {}, exc |-> "none"]

InitHarness ==
    /\ graph \in HarnessGraphs
    /\ NotCalled
    /\ other = NoOther
    /\ harness \in {NewHarness(k) : k \in {"benchmark", "test"}}
    /\ pool = NoPool

\* benchmark.py 52-58, test.py 33-39: smt_dist, smt_path = smt(distances)
HarnessSmt ==
    /\ harness.pc = "smt"
    /\ \E d \in SmtOutcomes(graph) :
            harness' = [harness EXCEPT !.pc = "dp", !.smt_dist = d]
    /\ UNCHANGED <<call, other, pool>>

\* benchmark.py 72, test.py 42: the steps of the call dp(distances)
HarnessDp ==
    /\ harness.pc = "dp"
    /\ Solve

\* benchmark.py 72-77, test.py 42-46: dp returned; dp_dist is its cost.
HarnessDpReturns ==
    /\ harness.pc = "dp"
    /\ pc = "done"
    /\ harness' = [harness EXCEPT !.pc = "compare", !.dp_dist = result.cost]
    /\ UNCHANGED <<call, other, pool>>

\* benchmark.py 72, test.py 42: an exception of dp is not caught; it ends
\* the harness.
HarnessDpRaises ==
    /\ harness.pc = "dp"
    /\ pc = "raised"
    /\ harness' = [harness EXCEPT !.pc = "raised", !.exc = result.exc]
    /\ UNCHANGED <<call, other, pool>>

\* benchmark.py 79-89: the comparison of run_single_benchmark in h, and its
\* end: the results are returned, or RuntimeError is raised and the results
\* with them 'agree': False are lost.
Compared(h) ==
    IF h.smt_dist = -1
    THEN [h EXCEPT !.pc = "returned", !.agree = "timeout",
                   !.printed = @ \cup {"WARNING"}]
    ELSE IF h.smt_dist # h.dp_dist
    THEN [h EXCEPT !.pc = "raised", !.agree = "False", !.exc = "RuntimeError"]
    ELSE [h EXCEPT !.pc = "returned", !.agree = "True"]

\* benchmark.py 79-89: the comparison of run_single_benchmark.
BenchCompare ==
    /\ harness.pc = "compare"
    /\ harness.kind = "benchmark"
    /\ harness' = Compared(harness)
    /\ UNCHANGED <<call, other, pool>>

\* test.py 47-51: the comparison of the loop.
TestCompare ==
    /\ harness.pc = "compare"
    /\ harness.kind = "test"
    /\ harness' =
            IF harness.smt_dist = harness.dp_dist
            THEN [harness EXCEPT !.pc = "returned",
                                 !.printed = @ \cup {"Agree"}]
            ELSE [harness EXCEPT !.pc = "returned",
                                 !.printed = @ \cup {"DISAGREE"}]
    /\ UNCHANGED <<call, other, pool>>

NextHarness ==
    \/ HarnessSmt
    \/ HarnessDp
    \/ HarnessDpReturns
    \/ HarnessDpRaises
    \/ BenchCompare
    \/ TestCompare

SpecHarness == InitHarness /\ [][NextHarness]_vars

\* ----------------------------------------------------- benchmark.main

\* The number of tasks given to the executor, and the largest cost a solver
\* reports in them.
MaxTasks == 2
MaxDist == 1

\* A task of benchmark.main whose solvers have answered smt_dist and
\* dp_dist, before the comparison.
Task(smt_dist, dp_dist) ==
    [NewHarness("benchmark") EXCEPT !.pc = "compare", !.smt_dist = smt_dist,
                                    !.dp_dist = dp_dist]

\* benchmark.py 104-121: main has submitted its tasks to the executor.
InitBench ==
    /\ graph = <<>>
    /\ NotCalled
    /\ other = NoOther
    /\ harness = NoHarness
    /\ \E futures \in [1..MaxTasks ->
                {Task(s, d) : s \in {-1} \cup 0..MaxDist, d \in 0..MaxDist}] :
            pool = [pc |-> "collect", futures |-> futures, collected |-> {},
                    results |-> <<>>, printed |-> {}, timeouts |-> 0,
                    disagreements |-> <<>>]

\* benchmark.py 120: a worker runs run_single_benchmark on task k to its
\* end; the future holds the results or the exception.
TaskRuns(k) ==
    /\ pool.pc \in {"collect"}
    /\ pool.futures[k].pc = "compare"
    /\ pool' = [pool EXCEPT !.futures[k] = Compared(@)]
    /\ UNCHANGED <<call, other, harness>>

\* benchmark.py 122-128: as_completed yields the future of task k, which is
\* done; its results are appended, or its exception is caught and printed.
MainCollect(k) ==
    /\ pool.pc = "collect"
    /\ k \notin pool.collected
    /\ pool.futures[k].pc \in {"returned", "raised"}
    /\ pool' =
            IF pool.futures[k].pc = "returned"
            THEN [pool EXCEPT !.collected = @ \cup {k},
                              !.results = Append(@,
                                    [task |-> k,
                                     agree |-> pool.futures[k].agree])]
            ELSE [pool EXCEPT !.collected = @ \cup {k},
                              !.printed = @ \cup {"Task failed"}]
    /\ UNCHANGED <<call, other, harness>>

\* benchmark.py 140-161: the loop over results counts the timeouts and
\* collects the results with result.get('agree') is False.
Track(results) ==
    [timeouts |->
        Cardinality({i \in DOMAIN results : results[i].agree = "timeout"}),
     disagreements |-> SelectSeq(results, LAMBDA r : r.agree = "False")]

\* benchmark.py 122-161: every future has been yielded; main leaves the
\* executor block and goes through the results.
MainTrack ==
    /\ pool.pc = "collect"
    /\ pool.collected = DOMAIN pool.futures
    /\ pool' = [pool EXCEPT !.pc = "summary",
                            !.timeouts = Track(pool.results).timeouts,
                            !.disagreements =
                                Track(pool.results).disagreements]
    /\ UNCHANGED <<call, other, harness>>

\* benchmark.py 181-194: the summary.
MainSummary ==
    /\ pool.pc = "summary"
    /\ pool' = [pool EXCEPT
            !.pc = "end",
            !.printed = @
                \cup (IF pool.timeouts # 0 THEN {"SMT Timeouts by size:"}
                      ELSE {"No SMT timeouts occurred"})
                \cup (IF pool.disagreements # <<>>
                      THEN {"Real disagreements found"}
                      ELSE {"No disagreements found (excluding timeouts)"})]
    /\ UNCHANGED <<call, other, harness>>

NextBench ==
    \/ \E k \in 1..MaxTasks : TaskRuns(k)
    \/ \E k \in 1..MaxTasks : MainCollect(k)
    \/ MainTrack
    \/ MainSummary

SpecBench == InitBench /\ [][NextBench]_vars

\* ------------------------------------------------ test_strategies.main

\* test_strategies.py 70-75: the number of strategies (and of workers, 81).
NumStrategies == 4

\* test_strategies.py 27-60: the statuses run_strategy returns.
Statuses == {"SOLVED", "UNSAT", "TIMEOUT", "ERROR"}

\* test_strategies.py 81-87: main has submitted every strategy; with as many
\* workers as strategies, all of them are running.
InitStrategies ==
    /\ graph = <<>>
    /\ NotCalled
    /\ other = NoOther
    /\ harness = NoHarness
    /\ pool = [pc |-> "collect",
               futures |-> [k \in 1..NumStrategies |-> "running"],
               collected |-> {}, results |-> <<>>, broke |-> FALSE]

\* test_strategies.py 11-60: run_strategy of strategy k returns with status
\* st in its worker process.
StrategyEnds(k, st) ==
    /\ pool.pc \in {"collect", "exit"}
    /\ pool.futures[k] = "running"
    /\ pool' = [pool EXCEPT !.futures[k] = st]
    /\ UNCHANGED <<call, other, harness>>

\* test_strategies.py 88-97: as_completed yields the future of strategy k,
\* which is done; its result is appended and printed, and on SOLVED the loop
\* is left by `break`.
MainNext(k) ==
    /\ pool.pc = "collect"
    /\ k \notin pool.collected
    /\ pool.futures[k] # "running"
    /\ pool' = [pool EXCEPT
            !.collected = @ \cup {k},
            !.results = Append(@, [strategy |-> k,
                                   status |-> pool.futures[k]]),
            !.broke = (pool.futures[k] = "SOLVED"),
            !.pc = IF pool.futures[k] = "SOLVED" THEN "exit" ELSE "collect"]
    /\ UNCHANGED <<call, other, harness>>

\* test_strategies.py 88: as_completed has yielded every future; the loop
\* ends.
MainLoopEnds ==
    /\ pool.pc = "collect"
    /\ pool.collected = DOMAIN pool.futures
    /\ pool' = [pool EXCEPT !.pc = "exit"]
    /\ UNCHANGED <<call, other, harness>>

\* test_strategies.py 81, 98: the end of the `with` block is
\* executor.shutdown(wait=True), which returns when every submitted call has
\* ended; nothing cancels or kills a call.
MainExit ==
    /\ pool.pc = "exit"
    /\ \A k \in DOMAIN pool.futures : pool.futures[k] # "running"
    /\ pool' = [pool EXCEPT !.pc = "summary"]
    /\ UNCHANGED <<call, other, harness>>

\* test_strategies.py 99-103: the summary of the results collected.
StrategiesSummary ==
    /\ pool.pc = "summary"
    /\ pool' = [pool EXCEPT !.pc = "end"]
    /\ UNCHANGED <<call, other, harness>>

NextStrategies ==
    \/ \E k \in 1..NumStrategies : \E st \in Statuses : StrategyEnds(k, st)
    \/ \E k \in 1..NumStrategies : MainNext(k)
    \/ MainLoopEnds
    \/ MainExit
    \/ StrategiesSummary

SpecStrategies == InitStrategies /\ [][NextStrategies]_vars

\* ------------------------------------------------------------------ smt.py

\* The largest number of cities of a matrix given to smt.
MaxCities == 4

\* z3: If(b, x, y)
If(b, x, y) == IF b THEN x ELSE y

\* z3: Sum([f[x] for x in S])
RECURSIVE Sum(_, _)
Sum(f, S) ==
    IF S = {} THEN 0
    ELSE LET x == CHOOSE x \in S : TRUE IN f[x] + Sum(f, S \ {x})

\* range(k)
Cities(k) == 0..(k - 1)

\* smt.py 29-38: the value the constraint gives total_distance.
TotalDistance(k, distances, edges_used) ==
    Sum([ij \in Cities(k) \X Cities(k) |->
            If(edges_used[ij[1]][ij[2]], Cell(distances, ij[1], ij[2]), 0)],
        Cities(k) \X Cities(k))

\* smt.py 43-45: orders[0] == 0 and 1 <= orders[i] < num_cities.
OrdersInRange(k, orders) ==
    /\ orders[0] = 0
    /\ \A i \in 1..(k - 1) : orders[i] >= 1 /\ orders[i] < k

\* smt.py 54-56: no self-edge and one outgoing used edge per city.
OneSuccessor(k, edges_used) ==
    \A i \in Cities(k) :
        /\ edges_used[i][i] = FALSE
        /\ Sum([j \in Cities(k) |-> If(edges_used[i][j], 1, 0)], Cities(k)) = 1

\* smt.py 61-62: one incoming used edge per city.
OnePredecessor(k, edges_used) ==
    \A j \in Cities(k) :
        Sum([i \in Cities(k) |-> If(edges_used[i][j], 1, 0)], Cities(k)) = 1

\* The inequality with num_cities - 1 on its right-hand side: a used edge
\* i -> j only asks for orders[i] <= orders[j].
MTZLoose(k, order_i, order_j, used) ==
    order_i - order_j + (k - 1) * If(used, 1, 0) <= k - 1

\* smt.py 67-72: the MTZ inequality of the pair (i, j).
MTZ(k, order_i, order_j, used) ==
    order_i - order_j + (k - 1) * If(used, 1, 0) <= k - 2

\* smt.py 64-72: the MTZ inequality for every pair i != j of cities >= 1.
Ordered(k, edges_used, orders) ==
    \A i \in 1..(k - 1) : \A j \in 1..(k - 1) :
        i # j => MTZ(k, orders[i], orders[j], edges_used[i][j])

\* smt.py 43-72: the constraints on edges_used and orders for k cities.
Constraints(k, edges_used, orders) ==
    /\ OrdersInRange(k, orders)
    /\ OneSuccessor(k, edges_used)
    /\ OnePredecessor(k, edges_used)
    /\ Ordered(k, edges_used, orders)

\* The rows of edges_used with exactly one used edge: the rows that line 56
\* allows.
OneHot(k) == {[j \in Cities(k) |-> j = c] : c \in Cities(k)}

\* The distance matrices given to smt: two cities or more (one city returns
\* in lines 15-17, before any constraint is built).
SmtGraphs ==
    {Pattern(k, p) : k \in 2..MaxCities,
                     p \in {1} \X (0..MaxPattern) \X (0..MaxPattern)}

\* smt.py 77-80, 92-94: check() answered sat; the model is an assignment
\* that satisfies the constraints, and get_tour_path starts at city 0.
InitSmt ==
    /\ graph \in SmtGraphs
    /\ NotCalled
    /\ other = NoOther
    /\ pool = NoPool
    /\ \E edges_used \in [Cities(len(graph)) -> OneHot(len(graph))] :
        /\ OneSuccessor(len(graph), edges_used)
        /\ OnePredecessor(len(graph), edges_used)
        /\ \E orders \in [Cities(len(graph)) -> 0..len(graph)] :
            /\ Constraints(len(graph), edges_used, orders)
            /\ harness =
                    [pc |-> "sat", num_cities |-> len(graph),
                     edges_used |-> edges_used, orders |-> orders,
                     total_distance |->
                        TotalDistance(len(graph), graph, edges_used),
                     curr_city |-> 0, path |-> <<>>]

\* smt.py 97-100: the first j of range(num_cities) with routes[curr][j] true
\* in the model, or curr itself when the row has none.
NextCity(routes, curr, k) ==
    IF \E j \in Cities(k) : routes[curr][j]
    THEN Min({j \in Cities(k) : routes[curr][j]})
    ELSE curr

\* smt.py 95-100: one round of the loop of get_tour_path.
GetTourStep ==
    /\ harness.pc = "sat"
    /\ Len(harness.path) < harness.num_cities
    /\ harness' = [harness EXCEPT
            !.path = Append(@, harness.curr_city),
            !.curr_city = NextCity(harness.edges_used, harness.curr_city,
                                   harness.num_cities)]
    /\ UNCHANGED <<call, other, pool>>

\* smt.py 101, 80: get_tour_path returns path + [start_city], and smt returns
\* the cost and this path.
GetTourReturn ==
    /\ harness.pc = "sat"
    /\ Len(harness.path) = harness.num_cities
    /\ harness' = [harness EXCEPT !.pc = "returned", !.path = Append(@, 0)]
    /\ UNCHANGED <<call, other, pool>>

NextSmt ==
    \/ GetTourStep
    \/ GetTourReturn

SpecSmt == InitSmt /\ [][NextSmt]_vars

\* ------------------------------------------------------------------ claims

\* C1: for every valid cost matrix with n >= 2 cities, dp returns a cost, and
\* that cost is the minimum over all closed tours 0 -> p -> 0 (the optimum of
\* the exhaustive permutation search).
C1_CostIsOptimum ==
    (IsValid(graph) /\ len(graph) >= 2 /\ Finished)
        => (result.kind = "returned" /\ result.cost = MinTourCost(graph))

\* What does hold of C1: a cost that dp returns is the optimum.
ReturnedCostIsOptimum ==
    (IsValid(graph) /\ len(graph) >= 1 /\ result.kind = "returned")
        => result.cost = MinTourCost(graph)

\* C2: for every valid cost matrix with n >= 1, dp returns a pair (cost, tour)
\* and cost is the sum of graph[tour[i]][tour[i+1]] over the tour.
C2_CostMatchesTour ==
    (IsValid(graph) /\ len(graph) >= 1 /\ Finished)
        => (result.kind = "returned"
            /\ result.cost = TourCost(graph, result.path))

\* What does hold of C2: a pair that dp returns is consistent.
ReturnedCostMatchesTour ==
    (IsValid(graph) /\ len(graph) >= 1 /\ result.kind = "returned")
        => result.cost = TourCost(graph, result.path)

\* A tour of k cities: length k + 1, from city 0 back to city 0, its first k
\* elements every city 0..k-1 exactly once.
IsTour(t, k) ==
    /\ Len(t) = k + 1
    /\ t[1] = 0
    /\ t[k + 1] = 0
    /\ {t[i] : i \in 1..k} = 0..(k - 1)

\* C3: for every valid cost matrix with n >= 1, dp returns a tour of length
\* n + 1 that starts and ends at city 0 and whose first n elements are every
\* city exactly once.
C3_TourVisitsAll ==
    (IsValid(graph) /\ len(graph) >= 1 /\ Finished)
        => (result.kind = "returned" /\ IsTour(result.path, len(graph)))

\* What does hold of C3: a tour that dp returns is a tour of all the cities.
ReturnedTourVisitsAll ==
    (IsValid(graph) /\ len(graph) >= 1 /\ result.kind = "returned")
        => IsTour(result.path, len(graph))

\* C4 as stated: on the 4-city example matrix dp returns cost 80 and a tour
\* whose edge costs sum to 80.
C4_ExampleCost80 ==
    (graph = Example4 /\ Finished)
        => /\ result.kind = "returned"
           /\ result.cost = 80
           /\ TourCost(graph, result.path) = 80

\* C4 as amended: on the 4-city example matrix dp returns the optimal cost 95
\* and a tour of the four cities whose edge costs sum to 95.
C4_ExampleCost95 ==
    (graph = Example4 /\ Finished)
        => /\ result.kind = "returned"
           /\ result.cost = 95
           /\ result.cost = MinTourCost(graph)
           /\ IsTour(result.path, 4)
           /\ TourCost(graph, result.path) = 95

C4_Witness == graph = Example4 /\ pc = "done" /\ result.cost = 95

\* C5: a later dp call on the same matrix ends as the first one did: the same
\* cost and the same tour (or the same exception), also when several tours
\* are optimal.
C5_SameOutcomeAgain == (repeat /\ Finished) => result = first

C5_Witness ==
    /\ repeat
    /\ pc = "done"
    /\ IsValid(graph)
    /\ Cardinality(OptimalTours(graph)) >= 2

\* C6: on a matrix that is not square, has a negative entry or a non-zero
\* diagonal entry, dp makes no TSP call, returns nothing and ends with
\* InvalidInputError.
C6_InvalidRejected ==
    ~IsValid(graph)
        => /\ ncalls = 0
           /\ result.kind # "returned"
           /\ Finished => result.exc = "InvalidInputError"

\* C7: dp on the empty matrix ends with InvalidInputError or returns a value;
\* no other exception escapes.
C7_EmptyDefined ==
    (len(graph) = 0 /\ Finished)
        => (result.kind = "returned" \/ result.exc = "InvalidInputError")

\* C8: on a valid 1x1 matrix dp returns cost 0 and tour [0, 0]; the one TSP
\* call returns at the full-mask test (it never enters the loop and stores
\* nothing), no other TSP call is made and the reconstruction loop makes no
\* lookup.
C8_SingleCity ==
    (IsValid(graph) /\ len(graph) = 1 /\ pc # "start")
        => /\ ncalls = 1
           /\ nlookups = 0
           /\ \A i \in DOMAIN stack : stack[i].at = "enter"
           /\ dp_tbl = NewMemo(1)
           /\ next_move = NewMoves
           /\ Finished => result = Returned(0, <<0, 0>>)

C8_Witness == IsValid(graph) /\ len(graph) = 1 /\ pc = "done"

\* C9: on every valid matrix, however large its costs, no value TSP computes
\* is cut off at a bound: every memo entry written, and the cost of the
\* top-level call, is the exact cost of completing the tour from its state.
C9_ExactSums ==
    IsValid(graph)
        => /\ \A m \in DOMAIN dp_tbl : \A p \in DOMAIN dp_tbl[m] :
                dp_tbl[m][p] # -1 => dp_tbl[m][p] = Completion(graph, m, p)
           /\ pc \in {"recon", "done"} => cost = MinTourCost(graph)

\* C10: on every valid matrix with n >= 2, the key (mask, pos) that the
\* reconstruction loop is about to look up is in next_move.
C10_LookupFinds ==
    (IsValid(graph) /\ n >= 2 /\ pc = "recon" /\ Len(path) < n)
        => <<mask, pos>> \in DOMAIN next_move

\* C13: no step of dp or TSP changes the cost matrix of the caller: from the
\* call to the return or the exception, graph keeps every element.
C13_GraphUntouched == [][graph' = graph]_vars

\* dp returned after it wrote the memo table, next_move and the path.
C13_Witness ==
    /\ pc = "done"
    /\ Len(graph) >= 3
    /\ \E m \in DOMAIN dp_tbl : \E p \in DOMAIN dp_tbl[m] : dp_tbl[m][p] # -1
    /\ DOMAIN next_move # {}
    /\ Len(path) = Len(graph) + 1

\* The step is the return (or the exception) of the innermost TSP call, whose
\* mask is full, with the value of graph[pos][0].
BaseReturn ==
    IF HasCell(graph, Top.pos, 0)
    THEN IF Len(stack) = 1
         THEN /\ stack' = <<>>
              /\ pc' = "recon"
              /\ cost' = Cell(graph, Top.pos, 0)
         ELSE /\ Len(stack') = Len(stack) - 1
              /\ stack'[Len(stack')].at = "add"
              /\ stack'[Len(stack')].sum =
                    stack[Len(stack) - 1].sum + Cell(graph, Top.pos, 0)
    ELSE /\ pc' = "raised"
         /\ result' = Raised("IndexError")

\* C17: a TSP call whose mask is the full mask returns the value of
\* graph[pos][0] to its caller (where the row has no such cell, evaluating
\* it raises IndexError) and makes no recursive call.
C17_FullMaskReturns ==
    [][(pc = "tsp" /\ Top.at = "enter" /\ Top.mask = visited)
            => (ncalls' = ncalls /\ BaseReturn)]_vars

\* A caller has just got graph[city][0] > 0 back from a full-mask call.
C17_Witness ==
    /\ IsValid(graph)
    /\ pc = "tsp"
    /\ Top.at = "add"
    /\ OrBit(Top.mask, Top.city) = visited
    /\ Cell(graph, Top.city, 0) > 0
    /\ Cell(graph, Top.city, 0) # Cell(graph, 0, Top.city)
    /\ Top.sum = Cell(graph, Top.pos, Top.city) + Cell(graph, Top.city, 0)

\* C19: every active TSP call, every key of next_move, every memo entry
\* written and every state of the reconstruction loop has a mask with bit 0
\* set and with the bit of its pos set.
C19_StartAndPosInMask ==
    /\ \A i \in DOMAIN stack :
            HasBit(stack[i].mask, 0) /\ HasBit(stack[i].mask, stack[i].pos)
    /\ \A k \in DOMAIN next_move : HasBit(k[1], 0) /\ HasBit(k[1], k[2])
    /\ \A m \in DOMAIN dp_tbl : \A p \in DOMAIN dp_tbl[m] :
            dp_tbl[m][p] # -1 => (HasBit(m, 0) /\ HasBit(m, p))
    /\ pc = "recon" => (HasBit(mask, 0) /\ HasBit(mask, pos))

\* Three nested TSP calls with entries in both tables.
C19_Witness ==
    /\ pc = "tsp"
    /\ Len(stack) >= 3
    /\ DOMAIN next_move # {}
    /\ \E m \in DOMAIN dp_tbl : \E p \in DOMAIN dp_tbl[m] : dp_tbl[m][p] # -1

\* The step is the store of line 35 into dp[m][p].
StoresInto(m, p) ==
    /\ pc = "tsp"
    /\ Top.at = "loop"
    /\ Unvisited(Top.mask, Top.city) = {}
    /\ Top.mask = m
    /\ Top.pos = p

\* C20: during a solve on a valid matrix, a memo entry that has been written
\* is not stored into again and keeps its value until dp returns.
C20_WrittenOnce ==
    [][(IsValid(graph) /\ pc \in {"tsp", "recon"})
            => \A m \in DOMAIN dp_tbl : \A p \in DOMAIN dp_tbl[m] :
                    dp_tbl[m][p] # -1
                        => (~StoresInto(m, p) /\ dp_tbl'[m][p] = dp_tbl[m][p])
      ]_vars

\* A TSP call finds its state written in the memo table.
C20_Witness ==
    /\ IsValid(graph)
    /\ pc = "tsp"
    /\ Top.at = "enter"
    /\ Top.mask # visited
    /\ HasEntry(Top.mask, Top.pos)
    /\ dp_tbl[Top.mask][Top.pos] # -1

\* C14: on every valid matrix with n >= 1, a dp call that has ended has
\* returned, and its reconstruction loop made n - 1 lookups and appended
\* n - 1 cities to [0] before the closing 0.
C14_LoopAppendsAll ==
    (IsValid(graph) /\ len(graph) >= 1 /\ Finished)
        => /\ pc = "done"
           /\ nlookups = len(graph) - 1
           /\ Len(path) = len(graph) + 1

\* What holds of it: a dp call that returned made n - 1 lookups and appended
\* n - 1 cities; one that raised on a valid matrix with n >= 1 left the
\* reconstruction loop by a KeyError.
ReturnedLoopAppendsAll ==
    (IsValid(graph) /\ len(graph) >= 1 /\ Finished)
        => IF pc = "done"
           THEN nlookups = len(graph) - 1 /\ Len(path) = len(graph) + 1
           ELSE result = Raised("KeyError") /\ nlookups <= len(graph) - 1

\* The cities of range(len(g)) that are not in mask m.
NotIn(g, m) == {c \in 0..(Len(g) - 1) : ~HasBit(m, c)}

\* The candidate cost of city c in state (m, p):
\* graph[p][c] + V(m | 1 << c, c).
Candidate(g, m, p, c) == Cell(g, p, c) + Completion(g, OrBit(m, c), c)

\* The memo entries written by TSP: the states it has computed.
Computed ==
    {s \in (DOMAIN dp_tbl) \X (0..(Len(graph) - 1)) :
        /\ s[2] \in DOMAIN dp_tbl[s[1]]
        /\ dp_tbl[s[1]][s[2]] # -1}

\* C16: on a valid matrix, the value stored in dp[mask][pos] for a mask that
\* is not full is the minimum over the cities c not in mask of
\* graph[pos][c] + V(mask | 1 << c, c).
C16_StoredIsMinimum ==
    IsValid(graph)
        => \A s \in Computed :
                dp_tbl[s[1]][s[2]] =
                    Min({Candidate(graph, s[1], s[2], c) :
                            c \in NotIn(graph, s[1])})

\* What holds of it: the value stored is that minimum cut off at MAX.
StoredIsMinimumUpToMAX ==
    IsValid(graph)
        => \A s \in Computed :
                dp_tbl[s[1]][s[2]] =
                    Min({Candidate(graph, s[1], s[2], c) :
                            c \in NotIn(graph, s[1])} \cup {MAX})

\* The cities not in m whose candidate cost in state (m, p) is the minimum.
Best(g, m, p) ==
    {c \in NotIn(g, m) :
        \A d \in NotIn(g, m) : Candidate(g, m, p, c) <= Candidate(g, m, p, d)}

\* C18: on a valid matrix, for every state (mask, pos) that TSP has finished
\* computing, next_move[(mask, pos)] is the city of smallest index among
\* those whose candidate cost is the minimum of the state.
C18_FirstMinimumRecorded ==
    IsValid(graph)
        => \A s \in Computed :
                /\ s \in DOMAIN next_move
                /\ next_move[s] = Min(Best(graph, s[1], s[2]))

\* What holds of it: it is so for every state whose minimum is below MAX, and
\* a state whose minimum is MAX or more has no entry in next_move.
FirstMinimumBelowMAX ==
    IsValid(graph)
        => \A s \in Computed :
                IF dp_tbl[s[1]][s[2]] < MAX
                THEN /\ s \in DOMAIN next_move
                     /\ next_move[s] = Min(Best(graph, s[1], s[2]))
                ELSE s \notin DOMAIN next_move

\* dp has made the call TSP(1, 0) of line 46 and TSP has not taken a step.
Called == pc = "tsp" /\ ncalls = 1 /\ stack = <<Frame(1, 0)>>

\* C12: whatever dp calls ended before it, on this matrix or on another, a
\* dp call starts with a memo table of 2^n rows of n entries that are all -1
\* and with an empty next_move, and a later call on a matrix ends with the
\* outcome of the first call on it.
C12_FreshTables ==
    /\ Called
            => /\ DOMAIN dp_tbl = 0..(Shl(len(graph)) - 1)
               /\ \A m \in DOMAIN dp_tbl :
                    /\ DOMAIN dp_tbl[m] = 0..(len(graph) - 1)
                    /\ \A p \in DOMAIN dp_tbl[m] : dp_tbl[m][p] = -1
               /\ DOMAIN next_move = {}
    /\ (repeat /\ Finished) => result = first

\* dp returned for the second time on a matrix, after a call on another
\* matrix of the same size in between.
C12_Witness ==
    /\ pc = "done"
    /\ repeat
    /\ other.first # Running
    /\ other.graph # graph
    /\ Len(other.graph) = Len(graph)
    /\ Len(graph) >= 2

\* C11: two dp calls, each on its own matrix, run with their steps
\* interleaved in any order: a call that ends, the one running or the one
\* kept, ends with the outcome it has when it runs alone (the same cost and
\* tour, or the same exception).
C11_SameAsAlone ==
    /\ (repeat /\ Finished) => result = first
    /\ (other.repeat /\ other.pc \in {"done", "raised"})
            => other.result = other.first

\* A dp call returned while the other one, on another matrix of the same
\* size, is in the middle of its search with entries in both its tables.
C11_Witness ==
    /\ pc = "done"
    /\ repeat
    /\ other.repeat
    /\ other.pc = "tsp"
    /\ other.ncalls > 1
    /\ other.ncalls < ncalls
    /\ DOMAIN other.next_move # {}
    /\ other.graph # graph
    /\ Len(other.graph) = Len(graph)

\* The harness has compared the two costs, and smt had returned -1.
ComparedTimeout ==
    /\ harness.pc \in {"returned", "raised"}
    /\ harness.exc \in {"none", "RuntimeError"}
    /\ harness.smt_dist = -1

\* C15: in both harnesses, when smt returned the sentinel -1 the comparison
\* prints no DISAGREE, raises no RuntimeError and does not set agree to
\* False.
C15_TimeoutTolerated ==
    ComparedTimeout
        => /\ "DISAGREE" \notin harness.printed
           /\ harness.exc # "RuntimeError"
           /\ harness.agree # "False"

\* What holds of it: it is so in run_single_benchmark, which sets agree to
\* 'timeout' and prints a warning.
BenchTimeoutTolerated ==
    (ComparedTimeout /\ harness.kind = "benchmark")
        => /\ harness.printed = {"WARNING"}
           /\ harness.exc = "none"
           /\ harness.agree = "timeout"

\* The step is `return v` of the innermost TSP call: its caller resumes with
\* v added to the sum of line 28, or dp resumes with cost = v.
ReturnsValue(v) ==
    IF Len(stack) = 1
    THEN /\ stack' = <<>>
         /\ pc' = "recon"
         /\ cost' = v
    ELSE /\ Len(stack') = Len(stack) - 1
         /\ stack'[Len(stack')].at = "add"
         /\ stack'[Len(stack')].sum = stack[Len(stack) - 1].sum + v

\* C21: on a valid matrix, a TSP call on a state (mask, pos) whose candidate
\* scan was begun before in this solve begins no scan and makes no recursive
\* call: it returns the value cached in dp[mask][pos].  So the scan of a
\* state is begun at most once per solve.
C21_ScannedOnce ==
    [][(/\ IsValid(graph)
        /\ pc = "tsp"
        /\ Top.at = "enter"
        /\ <<Top.mask, Top.pos>> \in scanned)
            => /\ scanned' = scanned
               /\ ncalls' = ncalls
               /\ dp_tbl[Top.mask][Top.pos] # -1
               /\ ReturnsValue(dp_tbl[Top.mask][Top.pos])]_vars

\* A TSP call three levels down is made on a state that was scanned before.
C21_Witness ==
    /\ IsValid(graph)
    /\ pc = "tsp"
    /\ Len(stack) >= 3
    /\ Top.at = "enter"
    /\ <<Top.mask, Top.pos>> \in scanned

\* C22: from the return of the top-level TSP call to the return of dp, a step
\* leaves the memo table, next_move, the cost and the matrix as they are and
\* makes no TSP call; it reads next_move[(mask, pos)], appends the city read
\* to the path, moves pos to it and sets its bit in mask, or, with all n
\* cities in the path, appends 0 and returns (a key that is missing ends dp
\* with KeyError).
C22_PureReplay ==
    [][pc = "recon"
        => /\ dp_tbl' = dp_tbl
           /\ next_move' = next_move
           /\ cost' = cost
           /\ graph' = graph
           /\ ncalls' = ncalls
           /\ stack' = stack
           /\ IF Len(path) < n
              THEN IF <<mask, pos>> \in DOMAIN next_move
                   THEN /\ pc' = "recon"
                        /\ path' = Append(path, next_move[<<mask, pos>>])
                        /\ pos' = next_move[<<mask, pos>>]
                        /\ mask' = OrBit(mask, next_move[<<mask, pos>>])
                   ELSE /\ pc' = "raised"
                        /\ result' = Raised("KeyError")
                        /\ path' = path
              ELSE /\ pc' = "done"
                   /\ path' = Append(path, 0)
                   /\ result' = Returned(cost, path')]_vars

\* The reconstruction loop has read two cities from next_move.
C22_Witness ==
    /\ IsValid(graph)
    /\ pc = "done"
    /\ nlookups >= 2
    /\ Len(path) = nlookups + 2
    /\ DOMAIN next_move # {}

\* The number of cities in mask m.
BitCount(m) == Cardinality({c \in 0..(n + 1) : HasBit(m, c)})

\* C23: during a solve with n >= 1 at most n TSP calls are active, one
\* inside the other, and the mask of the i-th of them has i bits set: one
\* more than the mask of its caller.
C23_DepthAtMostN ==
    (len(graph) >= 1 /\ pc = "tsp")
        => /\ Len(stack) <= n
           /\ \A i \in DOMAIN stack : BitCount(stack[i].mask) = i

\* n >= 3 TSP calls are active, the innermost on the full mask.
C23_Witness ==
    /\ pc = "tsp"
    /\ n >= 3
    /\ Len(stack) = n
    /\ Top.mask = visited

\* C30: when the top-level TSP call has returned on a valid matrix with
\* n >= 2, the memo entries different from -1 are the states (mask, pos) with
\* mask not full, bit 0 in mask, pos in mask, and pos = 0 only for mask = 1.
C30_WrittenAreReachable ==
    (IsValid(graph) /\ len(graph) >= 2 /\ pc \in {"recon", "done"})
        => \A m \in DOMAIN dp_tbl : \A p \in DOMAIN dp_tbl[m] :
                (dp_tbl[m][p] # -1)
                    <=> /\ m # Shl(len(graph)) - 1
                        /\ HasBit(m, 0)
                        /\ HasBit(m, p)
                        /\ (p = 0 => m = 1)

\* The top-level TSP call has just returned on a valid matrix of three
\* cities or more.
C30_Witness ==
    /\ IsValid(graph)
    /\ len(graph) >= 3
    /\ pc = "recon"
    /\ path = <<0>>
    /\ dp_tbl[1][0] # -1

\* C28: for n >= 2, dp on a matrix and dp on a matrix that differs from it
\* in diagonal entries only end with the same outcome: the same cost and
\* the same tour (or the same exception).
C28_DiagonalUnread ==
    (repeat /\ Finished /\ len(graph) >= 2) => result = first

\* dp returned on a matrix of three cities or more whose diagonal differs
\* from the one of the matrix of the call before.
C28_Witness ==
    /\ pc = "done"
    /\ repeat
    /\ other.pc = "was"
    /\ other.graph # graph
    /\ len(graph) >= 3
    /\ result.cost > 0

\* C27: for every valid n x n matrix with 1 <= n <= 10, brute(graph, 0)
\* returns the minimum cost over the closed tours through all n cities,
\* with a tour of n + 1 entries that has this cost.
C27_BruteIsOracle ==
    (harness.pc = "compared" /\ IsValid(graph) /\ len(graph) >= 1
        /\ len(graph) <= 10)
        => /\ harness.brute.kind = "returned"
           /\ harness.brute.cost = MinTourCost(graph)
           /\ Len(harness.brute.path) = len(graph) + 1
           /\ harness.brute.path \in OptimalTours(graph)

\* What holds of it: it is so for the matrices of V = 4 cities; on a valid
\* matrix of fewer cities brute raises IndexError, on one of more cities it
\* returns a walk through cities 0..3 only.
BruteIsOracleForV ==
    (harness.pc = "compared" /\ IsValid(graph) /\ len(graph) >= 1)
        => IF len(graph) = V
           THEN /\ harness.brute.kind = "returned"
                /\ harness.brute.cost = MinTourCost(graph)
                /\ harness.brute.path \in OptimalTours(graph)
           ELSE IF len(graph) < V
           THEN harness.brute = Raised("IndexError")
           ELSE /\ harness.brute.kind = "returned"
                /\ Len(harness.brute.path) = V + 1

\* Sequence a comes before sequence b of the same length in the
\* lexicographic order, or is b.
LexLeq(a, b) ==
    \/ a = b
    \/ \E k \in DOMAIN a :
            /\ a[k] < b[k]
            /\ \A j \in 1..(k - 1) : a[j] = b[j]

\* C29: on every valid matrix of 4 cities whose optimal tour costs less than
\* 999999, dp and brute return the same cost and the same tour, which is the
\* lexicographically smallest of the optimal tours.
C29_DpEqualsBrute ==
    (harness.pc = "compared" /\ IsValid(graph) /\ len(graph) = 4
        /\ MinTourCost(graph) < 999999)
        => /\ result.kind = "returned"
           /\ result = harness.brute
           /\ result.cost = MinTourCost(graph)
           /\ result.path \in OptimalTours(graph)
           /\ \A t \in OptimalTours(graph) : LexLeq(result.path, t)

\* dp and brute have returned on a valid matrix of 4 cities with several
\* optimal tours, of which they chose one that does not start with city 1.
C29_Witness ==
    /\ harness.pc = "compared"
    /\ IsValid(graph)
    /\ len(graph) = 4
    /\ harness.brute.kind = "returned"
    /\ Cardinality(OptimalTours(graph)) >= 2
    /\ harness.brute.path[2] # 1

\* On task k the SMT cost is not the sentinel and differs from the DP cost.
RealDifference(k) ==
    /\ pool.futures[k].smt_dist # -1
    /\ pool.futures[k].smt_dist # pool.futures[k].dp_dist

\* C24: when benchmark.main has printed its summary, every task with a real
\* difference is in the disagreements list and 'Real disagreements found'
\* was printed for it, and 'No disagreements found (excluding timeouts)'
\* was printed only if no task had a real difference.
C24_DisagreementsReported ==
    pool.pc = "end"
        => /\ \A k \in DOMAIN pool.futures :
                RealDifference(k)
                    => /\ \E i \in DOMAIN pool.disagreements :
                            pool.disagreements[i].task = k
                       /\ "Real disagreements found" \in pool.printed
           /\ "No disagreements found (excluding timeouts)" \in pool.printed
                => \A k \in DOMAIN pool.futures : ~RealDifference(k)

\* What holds of it: the list is always empty and the summary always says
\* that no disagreement was found; a task with a real difference is
\* reported as a failed task only.
DisagreementsNeverRecorded ==
    pool.pc = "end"
        => /\ pool.disagreements = <<>>
           /\ "No disagreements found (excluding timeouts)" \in pool.printed
           /\ (\E k \in DOMAIN pool.futures : RealDifference(k))
                <=> "Task failed" \in pool.printed

\* Some strategy is still running.
StillRunning == \E k \in DOMAIN pool.futures : pool.futures[k] = "running"

\* C25: once main has left the loop on a SOLVED result, it is not held at
\* the end of the executor block by a strategy that is still running: it
\* can go on to the summary at once.
C25_LeavesAtOnce ==
    (pool.broke /\ pool.pc = "exit") => ENABLED MainExit

\* What holds of it: main gets to the summary only when every strategy has
\* ended, also after the break, and a strategy that was running at the
\* break runs to its own end.
SummaryAfterAllEnded ==
    pool.pc \in {"summary", "end"} => ~StillRunning

\* C26: for n >= 2, with any assignment that satisfies the constraints of
\* smt, the walk that get_tour_path builds from city 0 visits every city
\* exactly once and returns to city 0 (the used edges form no subtour), and
\* total_distance is the sum of the costs of the edges of that walk.
C26_NoSubtour ==
    harness.pc = "returned"
        => /\ IsTour(harness.path, harness.num_cities)
           /\ harness.total_distance = TourCost(graph, harness.path)

\* smt returned a tour of four cities or more that does not visit them in
\* the order of their indices.
C26_Witness ==
    /\ harness.pc = "returned"
    /\ harness.num_cities >= 4
    /\ harness.path[2] # 1
    /\ harness.total_distance > 0

====
